---- MODULE Spec2Model ----
(***************************************************************************)
(* A model of chromy's ChromInstance (src/chromy/chromi.py): the profile   *)
(* registry, the extension resolver, the bookmark aggregator, the bookmark *)
(* mutator and the bookmark search, together with the files they read and  *)
(* write.                                                                  *)
(*                                                                         *)
(* Strings that are searched or joined (URLs, names, folder paths) are     *)
(* sequences of characters; filesystem paths are sequences of components,  *)
(* the empty string being the empty sequence.  A Python dict whose order   *)
(* the code depends on (self.profiles, a JSON object's members) is a       *)
(* sequence; a dict that is only looked up is a function.                  *)
(***************************************************************************)
EXTENDS Integers, Sequences, FiniteSets, TLC

VARIABLES
    localState,     \* disk: <userdata_dir>/Local State
    bookmarkFiles,  \* disk: <profile_dir>/Bookmarks, per profile directory
    bakFiles,       \* disk: whether <profile_dir>/Bookmarks.bak exists
    prefFiles,      \* disk: <profile_dir>/Secure Preferences
    profiles,       \* ChromInstance.profiles (insertion-ordered)
    extensions,     \* ChromInstance.extensions
    bookmarks,      \* ChromInstance.bookmarks
    last,           \* the latest call: operation, arguments, exception raised
    found,          \* the value the latest search_bookmarks call returned
    writes,         \* how many times the files were rewritten from outside
    pc,             \* position of the scripted callers (SpecIdem, SpecSync)
    snap            \* the in-memory state those callers recorded

vars == <<localState, bookmarkFiles, bakFiles, prefFiles, profiles, extensions,
          bookmarks, last, found, writes, pc, snap>>

disk == <<localState, bookmarkFiles, bakFiles, prefFiles>>

(***************************************************************************)
(* dict helpers                                                            *)
(***************************************************************************)
EmptyMap == [x \in {} |-> x]

Put(f, k, v) == (k :> v) @@ f

Del(f, k) == [x \in DOMAIN f \ {k} |-> f[x]]

Pop(s, i) == SubSeq(s, 1, i - 1) \o SubSeq(s, i + 1, Len(s))

Range(s) == {s[i] : i \in DOMAIN s}

(***************************************************************************)
(* The inputs: profile directories, URLs, names                             *)
(***************************************************************************)
\* the files are rewritten from outside at most this many times
MaxDiskWrites == 2

UserDataDir == "userdata"

ProfileIds == {"Default", "Profile 1"}

ProfileDir(id) == <<UserDataDir, id>>

BookmarkPath(id) == ProfileDir(id) \o <<"Bookmarks">>

U1 == <<"a">>

U2 == <<"a", "b">>

U3 == <<"c">>

Urls == {U1, U2, U3}

UrlNode(name, url) ==
    [type |-> "url", name |-> name, url |-> url, children |-> <<>>]

Folder(name, children) ==
    [type |-> "folder", name |-> name, url |-> <<>>, children |-> children]

NameA == <<"A">>

NameB == <<"B">>

NameC == <<"C">>

NameX == <<"X">>

Bar == <<"B", "a", "r">>

Work == <<"W">>

(***************************************************************************)
(* Local State files the registry may find.  Every failure of              *)
(* fetch_all_profiles (no directory, no file, invalid JSON, no             *)
(* profile/info_cache) takes the same early return; kind # "json" stands   *)
(* for them.  info_cache lists its entries in the file's order.            *)
(***************************************************************************)
InfoEntry(id, name) == [id |-> id, name |-> name]

LocalStateFile(kind, cache) == [kind |-> kind, info_cache |-> cache]

LocalStateChoices ==
    { LocalStateFile("absent", <<>>),
      LocalStateFile("json", <<InfoEntry("Default", NameA)>>),
      LocalStateFile("json", <<InfoEntry("Default", NameA),
                               InfoEntry("Profile 1", NameB)>>),
      LocalStateFile("json", <<InfoEntry("Profile 1", NameB),
                               InfoEntry("Default", NameA)>>) }

(***************************************************************************)
(* Bookmarks files.  kind is "absent" (is_file() is false), "malformed"    *)
(* (json.loads raises JSONDecodeError) or "json"; a "json" file may carry  *)
(* a top-level checksum and may lack "roots".  roots lists the root nodes  *)
(* in the file's order.                                                    *)
(***************************************************************************)
BookmarkFile(kind, checksum, hasRoots, roots) ==
    [kind |-> kind, checksum |-> checksum, hasRoots |-> hasRoots, roots |-> roots]

AbsentFile == BookmarkFile("absent", FALSE, FALSE, <<>>)

MalformedFile == BookmarkFile("malformed", FALSE, FALSE, <<>>)

NoRootsFile == BookmarkFile("json", TRUE, FALSE, <<>>)

FlatFile ==
    BookmarkFile("json", TRUE, TRUE,
        << Folder(Bar, << UrlNode(NameA, U1), UrlNode(NameB, U2) >>) >>)

\* a five-child folder with two adjacent url children, a nested folder, and a
\* second root all of whose children are the same URL
NestedFile ==
    BookmarkFile("json", FALSE, TRUE,
        << Folder(Bar, << UrlNode(NameC, U3),
                          Folder(Work, << UrlNode(NameX, U1) >>),
                          UrlNode(NameX, U1),
                          UrlNode(NameB, U2),
                          UrlNode(NameC, U3) >>),
           Folder(Work, << UrlNode(NameX, U2), UrlNode(NameX, U2) >>) >>)

\* a url-type root entry beside a folder root
RootUrlFile ==
    BookmarkFile("json", TRUE, TRUE,
        << Folder(Bar, << UrlNode(NameB, U2) >>), UrlNode(NameC, U2) >>)

BookmarkFileChoices ==
    {AbsentFile, MalformedFile, NoRootsFile, FlatFile, NestedFile, RootUrlFile}

\* urls_to_delete, as a set: the code only tests membership
DeleteSets == {{U1}, {U1, U2}}

\* profile_ids: None, or a list of identifiers
NoFilter == [given |-> FALSE, ids |-> <<>>]

Filter(ids) == [given |-> TRUE, ids |-> ids]

ProfileFilters == {NoFilter, Filter(<<"Default">>)}

\* url_contains
Substrings == {<<>>, <<"a">>, <<"b">>}

(***************************************************************************)
(* structs.Profile and structs.Bookmark                                    *)
(***************************************************************************)
Profile(id, name) ==
    [id |-> id, name |-> name, profile_dir |-> ProfileDir(id),
     bookmark_file |-> <<>>, extensions |-> {}, bookmarks |-> EmptyMap]

Bookmark(name, url, profs) == [name |-> name, url |-> url, profiles |-> profs]

ProfileKeys(profs) == {profs[i].id : i \in DOMAIN profs}

KeyList(profs) == [i \in DOMAIN profs |-> profs[i].id]

IndexOf(profs, id) ==
    IF id \in ProfileKeys(profs)
    THEN CHOOSE i \in DOMAIN profs : profs[i].id = id
    ELSE 0

\* Path(...).read_text(): the Bookmarks file of the directory the path names
FileAt(files, path) == files[path[2]]

(***************************************************************************)
(* fetch_all_profiles                                                      *)
(***************************************************************************)
\* what `last` records of a call: the operation, the exception that left it
\* ("" when it returned), and the arguments of a delete or a search
Call(op, err) ==
    [op |-> op, err |-> err, urls |-> {}, pids |-> NoFilter, sub |-> <<>>]

LoadProfiles(state_file, profs) ==
    IF state_file.kind # "json"
    THEN profs
    ELSE [i \in DOMAIN state_file.info_cache |->
            Profile(state_file.info_cache[i].id, state_file.info_cache[i].name)]

(***************************************************************************)
(* _fetch_bookmarks_from_one_type and fetch_bookmarks_from_all_profiles    *)
(***************************************************************************)
RECURSIVE Join(_)
Join(path_ls) ==
    IF Len(path_ls) = 0 THEN <<>>
    ELSE IF Len(path_ls) = 1 THEN path_ls[1]
    ELSE path_ls[1] \o <<"/">> \o Join(Tail(path_ls))

RECURSIVE FetchBookmarksFromOneType(_, _, _, _)
RECURSIVE FetchChildren(_, _, _, _, _)

\* st = [pb: profile.bookmarks, bm: self.bookmarks]
FetchBookmarksFromOneType(bookmark_info, pid, path_ls, st) ==
    IF bookmark_info.type = "url" THEN
        LET url == bookmark_info.url
            bmk_path == Join(path_ls)
        IN  [pb |-> Put(st.pb, url, bmk_path),
             bm |-> IF url \in DOMAIN st.bm
                    THEN [st.bm EXCEPT ![url].profiles = Put(@, pid, bmk_path)]
                    ELSE Put(st.bm, url,
                             Bookmark(bookmark_info.name, url, pid :> bmk_path))]
    ELSE IF bookmark_info.type = "folder" THEN
        FetchChildren(bookmark_info.children, 1, pid,
                      Append(path_ls, bookmark_info.name), st)
    ELSE st

FetchChildren(children, k, pid, path_ls, st) ==
    IF k > Len(children) THEN st
    ELSE FetchChildren(children, k + 1, pid, path_ls,
                       FetchBookmarksFromOneType(children[k], pid, path_ls, st))

\* one iteration of the loop over self.profiles; st = [profiles, bookmarks]
FetchBookmarksOfProfile(st, i, files) ==
    LET profile == st.profiles[i]
        file == files[profile.id]
    IN  IF file.kind = "absent" THEN st
        ELSE LET recorded == [st.profiles EXCEPT
                                ![i].bookmark_file = BookmarkPath(profile.id)]
             IN  IF file.kind = "malformed" \/ ~file.hasRoots
                 THEN [st EXCEPT !.profiles = recorded]
                 ELSE LET r == FetchChildren(file.roots, 1, profile.id, << <<>> >>,
                                   [pb |-> profile.bookmarks, bm |-> st.bookmarks])
                      IN  [profiles |-> [recorded EXCEPT ![i].bookmarks = r.pb],
                           bookmarks |-> r.bm]

RECURSIVE FetchBookmarksLoop(_, _, _)
FetchBookmarksLoop(st, i, files) ==
    IF i > Len(st.profiles) THEN st
    ELSE FetchBookmarksLoop(FetchBookmarksOfProfile(st, i, files), i + 1, files)

\* self.bookmarks.clear()
ClearedBookmarks(bm) == EmptyMap

FetchBookmarksFromAllProfiles(profs, bm, files) ==
    FetchBookmarksLoop([profiles |-> profs, bookmarks |-> ClearedBookmarks(bm)],
                       1, files)

(***************************************************************************)
(* _delete_bookmarks_in_one_folder and delete_bookmarks_from_profiles      *)
(***************************************************************************)
\* the Bookmark left in the index after its last profile entry is popped
ForgetUrlKeepEmpty(st, url, pid) ==
    [pb |-> IF url \in DOMAIN st.pb THEN Del(st.pb, url) ELSE st.pb,
     bm |-> IF url \in DOMAIN st.bm /\ pid \in DOMAIN st.bm[url].profiles
            THEN [st.bm EXCEPT ![url].profiles = Del(@, pid)]
            ELSE st.bm]

\* only profile.bookmarks updated, self.bookmarks forgotten
ForgetUrlLocalOnly(st, url, pid) ==
    [pb |-> IF url \in DOMAIN st.pb THEN Del(st.pb, url) ELSE st.pb,
     bm |-> st.bm]

\* lines 192-199: st = [pb: profile.bookmarks, bm: self.bookmarks]
ForgetUrl(st, url, pid) ==
    LET pb1 == IF url \in DOMAIN st.pb THEN Del(st.pb, url) ELSE st.pb
        bm1 == IF url \in DOMAIN st.bm /\ pid \in DOMAIN st.bm[url].profiles
               THEN LET popped == [st.bm EXCEPT ![url].profiles = Del(@, pid)]
                    IN  IF Cardinality(DOMAIN popped[url].profiles) = 0
                        THEN Del(popped, url)
                        ELSE popped
               ELSE st.bm
    IN  [pb |-> pb1, bm |-> bm1]

RECURSIVE DeleteBookmarksInOneFolder(_, _, _, _)
RECURSIVE DeleteLoop(_, _, _, _, _)

\* the loop of lines 185-203 at index i (1-based), over the list being mutated;
\* returns [children, pb, bm]
DeleteLoop(children, i, urls_to_delete, pid, st) ==
    IF i < 1 THEN [children |-> children, pb |-> st.pb, bm |-> st.bm]
    ELSE LET child == children[i] IN
         IF child.type = "url" THEN
             IF child.url \in urls_to_delete
             THEN DeleteLoop(Pop(children, i), i - 1, urls_to_delete, pid,
                             ForgetUrl(st, child.url, pid))
             ELSE DeleteLoop(children, i - 1, urls_to_delete, pid, st)
         ELSE LET r == DeleteBookmarksInOneFolder(child, urls_to_delete, pid, st)
              IN  DeleteLoop([children EXCEPT ![i] = r.info], i - 1,
                             urls_to_delete, pid, [pb |-> r.pb, bm |-> r.bm])

\* the loop run forwards over the list being mutated: after a pop the next
\* element slides into the index just visited and is never looked at
RECURSIVE DeleteLoopForwards(_, _, _, _, _)
DeleteLoopForwards(children, i, urls_to_delete, pid, st) ==
    IF i > Len(children) THEN [children |-> children, pb |-> st.pb, bm |-> st.bm]
    ELSE LET child == children[i] IN
         IF child.type = "url" THEN
             IF child.url \in urls_to_delete
             THEN DeleteLoopForwards(Pop(children, i), i + 1, urls_to_delete, pid,
                                     ForgetUrl(st, child.url, pid))
             ELSE DeleteLoopForwards(children, i + 1, urls_to_delete, pid, st)
         ELSE LET r == DeleteBookmarksInOneFolder(child, urls_to_delete, pid, st)
              IN  DeleteLoopForwards([children EXCEPT ![i] = r.info], i + 1,
                                     urls_to_delete, pid, [pb |-> r.pb, bm |-> r.bm])

DeleteForwards(bookmark_info, urls_to_delete, pid, st) ==
    IF bookmark_info.type # "folder"
    THEN [info |-> bookmark_info, pb |-> st.pb, bm |-> st.bm]
    ELSE LET r == DeleteLoopForwards(bookmark_info.children, 1,
                                     urls_to_delete, pid, st)
         IN  [info |-> [bookmark_info EXCEPT !.children = r.children],
              pb |-> r.pb, bm |-> r.bm]

\* returns [info: the node after the in-place edit, pb, bm]
DeleteBookmarksInOneFolder(bookmark_info, urls_to_delete, pid, st) ==
    IF bookmark_info.type # "folder"
    THEN [info |-> bookmark_info, pb |-> st.pb, bm |-> st.bm]
    ELSE LET r == DeleteLoop(bookmark_info.children, Len(bookmark_info.children),
                             urls_to_delete, pid, st)
         IN  [info |-> [bookmark_info EXCEPT !.children = r.children],
              pb |-> r.pb, bm |-> r.bm]

\* lines 233-235: every root in turn; returns [roots, pb, bm]
RECURSIVE DeleteInRoots(_, _, _, _, _)
DeleteInRoots(roots, k, urls_to_delete, pid, st) ==
    IF k > Len(roots) THEN [roots |-> roots, pb |-> st.pb, bm |-> st.bm]
    ELSE LET r == DeleteBookmarksInOneFolder(roots[k], urls_to_delete, pid, st)
         IN  DeleteInRoots([roots EXCEPT ![k] = r.info], k + 1, urls_to_delete,
                           pid, [pb |-> r.pb, bm |-> r.bm])

\* one iteration of the loop of lines 213-237;
\* st = [profiles, bookmarks, files, bak, err]
DeleteFromOneProfile(st, urls_to_delete, profile_id) ==
    LET i == IndexOf(st.profiles, profile_id) IN
    IF i = 0 THEN [st EXCEPT !.err = "KeyError"]
    ELSE
    LET profile == st.profiles[i]
        unlinked == [st EXCEPT !.bak[profile.profile_dir[2]] = FALSE]
    IN  IF Len(profile.bookmark_file) = 0 THEN unlinked
        ELSE
        LET file == FileAt(st.files, profile.bookmark_file) IN
        IF file.kind = "absent" THEN [unlinked EXCEPT !.err = "FileNotFoundError"]
        ELSE IF file.kind = "malformed" THEN unlinked
        ELSE
        LET data == [file EXCEPT !.checksum = FALSE]
            r == IF data.hasRoots
                 THEN DeleteInRoots(data.roots, 1, urls_to_delete, profile.id,
                                    [pb |-> profile.bookmarks, bm |-> st.bookmarks])
                 ELSE [roots |-> data.roots, pb |-> profile.bookmarks,
                       bm |-> st.bookmarks]
        IN  [unlinked EXCEPT
                !.profiles[i].bookmarks = r.pb,
                !.bookmarks = r.bm,
                !.files[profile.bookmark_file[2]] = [data EXCEPT !.roots = r.roots]]

RECURSIVE DeleteLoopOverProfiles(_, _, _, _)
DeleteLoopOverProfiles(st, urls_to_delete, ids, k) ==
    IF k > Len(ids) \/ st.err # "" THEN st
    ELSE DeleteLoopOverProfiles(DeleteFromOneProfile(st, urls_to_delete, ids[k]),
                                urls_to_delete, ids, k + 1)

DeleteBookmarksFromProfiles(profs, bm, files, bak, urls_to_delete, profile_ids) ==
    DeleteLoopOverProfiles(
        [profiles |-> profs, bookmarks |-> bm, files |-> files, bak |-> bak,
         err |-> ""],
        urls_to_delete,
        IF profile_ids.given THEN profile_ids.ids ELSE KeyList(profs),
        1)

(***************************************************************************)
(* search_bookmarks                                                        *)
(***************************************************************************)
\* Python's `url_contains in url`
Contains(url, url_contains) ==
    \E i \in 0..(Len(url) - Len(url_contains)) :
        SubSeq(url, i + 1, i + Len(url_contains)) = url_contains

SearchBookmarks(profs, bm, url_contains, profile_ids) ==
    LET ids == IF profile_ids.given THEN profile_ids.ids ELSE KeyList(profs)
        hits == {url \in DOMAIN bm :
                    /\ Contains(url, url_contains)
                    /\ Cardinality(DOMAIN bm[url].profiles \cap Range(ids)) # 0}
    IN  [url \in hits |-> bm[url]]

(***************************************************************************)
(* The extension side of the disk.  A settings record's path is empty, an  *)
(* absolute directory (offline install) or a version directory relative to *)
(* <profile_dir>/Extensions (online install).  What exists outside the     *)
(* profile directories does not change.                                    *)
(***************************************************************************)
Manifest(name, description, icons) ==
    [name |-> name, description |-> description, icons |-> icons]

NoManifest == Manifest(<<>>, <<>>, EmptyMap)

Icons == (16 :> "a.png") @@ (128 :> "b.png")

ManifestN == Manifest(<<"N">>, <<"d">>, Icons)

ManifestM == Manifest(<<"M">>, <<"d">>, EmptyMap)

ManifestOnDisk == Manifest(<<"O">>, <<>>, Icons)

AbsGood == <<"opt", "good">>

AbsNoManifest == <<"opt", "nomanifest">>

AbsBadManifest == <<"opt", "badmanifest">>

RelHere == <<"1.0_0">>

RelGone == <<"2.0_0">>

ExtDir(profile_dir) == profile_dir \o <<"Extensions">>

\* the manifest.json inside an offline-installed extension's directory
ManifestFiles ==
    (AbsGood :> [kind |-> "json", data |-> ManifestOnDisk])
    @@ (AbsNoManifest :> [kind |-> "absent", data |-> NoManifest])
    @@ (AbsBadManifest :> [kind |-> "malformed", data |-> NoManifest])

\* jnp3.path.path_exists
PathExists(path) ==
    \/ path \in DOMAIN ManifestFiles
    \/ \E id \in ProfileIds : path = ExtDir(ProfileDir(id)) \o RelHere

\* Path.is_file() of an icon path
IconFiles ==
    { AbsGood \o <<"b.png">>,
      ExtDir(ProfileDir("Default")) \o RelHere \o <<"b.png">> }

ExtSetting(id, path, manifest) == [id |-> id, path |-> path, manifest |-> manifest]

\* Secure Preferences, with whether <profile_dir>/Extensions is a directory
PrefFile(kind, hasSettings, settings, ext_dir) ==
    [kind |-> kind, hasSettings |-> hasSettings, settings |-> settings,
     ext_dir |-> ext_dir]

PrefFileChoices ==
    { PrefFile("absent", FALSE, <<>>, TRUE),
      PrefFile("malformed", FALSE, <<>>, TRUE),
      PrefFile("json", FALSE, <<>>, TRUE),
      PrefFile("json", TRUE, <<ExtSetting("e1", RelHere, ManifestN)>>, TRUE),
      PrefFile("json", TRUE, <<ExtSetting("e1", RelHere, ManifestM),
                               ExtSetting("e2", <<>>, ManifestN)>>, TRUE),
      PrefFile("json", TRUE, <<ExtSetting("e1", RelGone, ManifestN),
                               ExtSetting("e2", AbsGood, NoManifest)>>, TRUE),
      PrefFile("json", TRUE, <<ExtSetting("e2", RelHere, ManifestM),
                               ExtSetting("e1", AbsNoManifest, ManifestN)>>, TRUE),
      PrefFile("json", TRUE, <<ExtSetting("e1", AbsBadManifest, ManifestN)>>, TRUE),
      PrefFile("json", TRUE, <<ExtSetting("e1", RelHere, ManifestN)>>, FALSE) }

ExtensionIds == {"e1", "e2"}

(***************************************************************************)
(* structs.Extension, _fetch_extensions_from_one_profile and               *)
(* fetch_extensions_from_all_profiles                                      *)
(***************************************************************************)
Extension(id, name, description, icon, profs) ==
    [id |-> id, name |-> name, description |-> description, icon |-> icon,
     profiles |-> profs]

MaxOf(S) == CHOOSE x \in S : \A y \in S : y <= x

\* lines 87-89 and 95
ResolveIcon(manifest_data, icon_parent_path) ==
    LET icons_info == manifest_data.icons
        icon_path == IF DOMAIN icons_info = {}
                     THEN icon_parent_path
                     ELSE icon_parent_path \o <<icons_info[MaxOf(DOMAIN icons_info)]>>
    IN  IF icon_path \in IconFiles THEN icon_path ELSE <<>>

\* lines 91-98
CreateExtension(st, i, ext_id, manifest_data, icon_parent_path) ==
    [st EXCEPT
        !.extensions = Put(@, ext_id,
            Extension(ext_id, manifest_data.name, manifest_data.description,
                      ResolveIcon(manifest_data, icon_parent_path),
                      {st.profiles[i].id})),
        !.profiles[i].extensions = @ \cup {ext_id}]

\* a known extension added to the profile without the profile being added to it
FetchOneExtensionNoBackref(st, i, ext_set, has_ext_dir) ==
    LET profile == st.profiles[i]
        ext_id == ext_set.id
        ext_dir == ExtDir(profile.profile_dir)
        ext_path == ext_set.path
    IN  IF ext_id \in DOMAIN st.extensions THEN
            [st EXCEPT !.profiles[i].extensions = @ \cup {ext_id}]
        ELSE IF ~has_ext_dir THEN st
        ELSE IF Len(ext_path) = 0 THEN st
        ELSE IF PathExists(ext_path) THEN
            LET manifest_file == ManifestFiles[ext_path] IN
            IF manifest_file.kind = "absent"
            THEN [st EXCEPT !.err = "FileNotFoundError"]
            ELSE IF manifest_file.kind = "malformed"
            THEN [st EXCEPT !.err = "JSONDecodeError"]
            ELSE CreateExtension(st, i, ext_id, manifest_file.data, ext_path)
        ELSE IF PathExists(ext_dir \o ext_path) THEN
            CreateExtension(st, i, ext_id, ext_set.manifest, ext_dir \o ext_path)
        ELSE st

\* one iteration of the loop of lines 57-98; st = [profiles, extensions, err]
FetchOneExtension(st, i, ext_set, has_ext_dir) ==
    LET profile == st.profiles[i]
        ext_id == ext_set.id
        ext_dir == ExtDir(profile.profile_dir)
        ext_path == ext_set.path
    IN  IF ext_id \in DOMAIN st.extensions THEN
            [st EXCEPT !.profiles[i].extensions = @ \cup {ext_id},
                       !.extensions[ext_id].profiles = @ \cup {profile.id}]
        ELSE IF ~has_ext_dir THEN st
        ELSE IF Len(ext_path) = 0 THEN st
        ELSE IF PathExists(ext_path) THEN
            LET manifest_file == ManifestFiles[ext_path] IN
            IF manifest_file.kind = "absent"
            THEN [st EXCEPT !.err = "FileNotFoundError"]
            ELSE IF manifest_file.kind = "malformed"
            THEN [st EXCEPT !.err = "JSONDecodeError"]
            ELSE CreateExtension(st, i, ext_id, manifest_file.data, ext_path)
        ELSE IF PathExists(ext_dir \o ext_path) THEN
            CreateExtension(st, i, ext_id, ext_set.manifest, ext_dir \o ext_path)
        ELSE st

RECURSIVE FetchExtensionsFromOneProfile(_, _, _, _, _)
FetchExtensionsFromOneProfile(st, i, ext_settings, k, has_ext_dir) ==
    IF k > Len(ext_settings) \/ st.err # "" THEN st
    ELSE FetchExtensionsFromOneProfile(
             FetchOneExtension(st, i, ext_settings[k], has_ext_dir),
             i, ext_settings, k + 1, has_ext_dir)

\* one iteration of the loop of lines 102-122
FetchExtensionsOfProfile(st, i, prefs) ==
    LET file == prefs[st.profiles[i].id] IN
    IF file.kind # "json" \/ ~file.hasSettings THEN st
    ELSE FetchExtensionsFromOneProfile(st, i, file.settings, 1, file.ext_dir)

RECURSIVE FetchExtensionsLoop(_, _, _)
FetchExtensionsLoop(st, i, prefs) ==
    IF i > Len(st.profiles) \/ st.err # "" THEN st
    ELSE FetchExtensionsLoop(FetchExtensionsOfProfile(st, i, prefs), i + 1, prefs)

\* the index not cleared before the pass
KeptExtensions(exts) == exts

\* self.extensions.clear()
ClearedExtensions(exts) == EmptyMap

FetchExtensionsFromAllProfiles(profs, exts, prefs) ==
    FetchExtensionsLoop(
        [profiles |-> profs, extensions |-> ClearedExtensions(exts), err |-> ""],
        1, prefs)

(***************************************************************************)
(* The state after construction, over every disk the inputs describe       *)
(***************************************************************************)
Memory == [profiles |-> profiles, extensions |-> extensions, bookmarks |-> bookmarks]

NoPrefs == [id \in ProfileIds |-> PrefFile("absent", FALSE, <<>>, TRUE)]

NoBookmarks == [id \in ProfileIds |-> AbsentFile]

Constructed ==
    /\ profiles = <<>>
    /\ extensions = EmptyMap
    /\ bookmarks = EmptyMap
    /\ last = Call("__init__", "")
    /\ found = EmptyMap
    /\ writes = 0
    /\ pc = 0
    /\ snap = [profiles |-> <<>>, extensions |-> EmptyMap, bookmarks |-> EmptyMap,
               urls |-> {}]

Init ==
    /\ localState \in LocalStateChoices
    /\ bookmarkFiles \in [ProfileIds -> BookmarkFileChoices]
    /\ bakFiles = [id \in ProfileIds |-> bookmarkFiles[id].kind = "json"]
    /\ prefFiles \in [ProfileIds -> PrefFileChoices]
    /\ Constructed

\* any Local State and Bookmarks files, no Secure Preferences
InitAnyBookmarks ==
    /\ localState \in LocalStateChoices
    /\ bookmarkFiles \in [ProfileIds -> BookmarkFileChoices]
    /\ bakFiles = [id \in ProfileIds |-> bookmarkFiles[id].kind = "json"]
    /\ prefFiles = NoPrefs
    /\ Constructed

\* two profiles that share U1 under different names; the files change later
InitBookmarks ==
    /\ localState = LocalStateFile("json", <<InfoEntry("Default", NameA),
                                             InfoEntry("Profile 1", NameB)>>)
    /\ bookmarkFiles = ("Default" :> FlatFile) @@ ("Profile 1" :> NestedFile)
    /\ bakFiles = [id \in ProfileIds |-> TRUE]
    /\ prefFiles = NoPrefs
    /\ Constructed

InitExtensions ==
    /\ localState \in LocalStateChoices
    /\ bookmarkFiles = NoBookmarks
    /\ bakFiles = [id \in ProfileIds |-> FALSE]
    /\ prefFiles \in [ProfileIds -> PrefFileChoices]
    /\ Constructed

(***************************************************************************)
(* The calls.  Each Do... is the call itself; the action of the same name  *)
(* is the call made by an unscripted caller.                               *)
(***************************************************************************)
DoFetchAllProfiles ==
    /\ profiles' = LoadProfiles(localState, profiles)
    /\ last' = Call("fetch_all_profiles", "")
    /\ found' = EmptyMap
    /\ UNCHANGED <<disk, writes, extensions, bookmarks>>

DoFetchExtensions ==
    LET r == FetchExtensionsFromAllProfiles(profiles, extensions, prefFiles) IN
    /\ profiles' = r.profiles
    /\ extensions' = r.extensions
    /\ last' = Call("fetch_extensions", r.err)
    /\ found' = EmptyMap
    /\ UNCHANGED <<disk, writes, bookmarks>>

DoFetchBookmarks ==
    LET r == FetchBookmarksFromAllProfiles(profiles, bookmarks, bookmarkFiles) IN
    /\ profiles' = r.profiles
    /\ bookmarks' = r.bookmarks
    /\ last' = Call("fetch_bookmarks", "")
    /\ found' = EmptyMap
    /\ UNCHANGED <<disk, writes, extensions>>

DoDeleteBookmarks(urls_to_delete, profile_ids) ==
    LET r == DeleteBookmarksFromProfiles(profiles, bookmarks, bookmarkFiles,
                                          bakFiles, urls_to_delete, profile_ids) IN
    /\ profiles' = r.profiles
    /\ bookmarks' = r.bookmarks
    /\ bookmarkFiles' = r.files
    /\ bakFiles' = r.bak
    /\ last' = [Call("delete_bookmarks", r.err) EXCEPT
                    !.urls = urls_to_delete, !.pids = profile_ids]
    /\ found' = EmptyMap
    /\ UNCHANGED <<localState, prefFiles, writes, extensions>>

DoSearchBookmarks(url_contains, profile_ids) ==
    /\ found' = SearchBookmarks(profiles, bookmarks, url_contains, profile_ids)
    /\ last' = [Call("search_bookmarks", "") EXCEPT
                    !.sub = url_contains, !.pids = profile_ids]
    /\ UNCHANGED <<disk, writes, profiles, extensions, bookmarks>>

FetchAllProfiles == DoFetchAllProfiles /\ UNCHANGED <<pc, snap>>

FetchExtensions == DoFetchExtensions /\ UNCHANGED <<pc, snap>>

FetchBookmarks == DoFetchBookmarks /\ UNCHANGED <<pc, snap>>

DeleteBookmarks ==
    \E urls_to_delete \in DeleteSets, profile_ids \in ProfileFilters :
        DoDeleteBookmarks(urls_to_delete, profile_ids) /\ UNCHANGED <<pc, snap>>

Search ==
    \E url_contains \in Substrings, profile_ids \in ProfileFilters :
        DoSearchBookmarks(url_contains, profile_ids) /\ UNCHANGED <<pc, snap>>

(***************************************************************************)
(* The browser and the user, rewriting the files between calls             *)
(***************************************************************************)
WriteLocalState ==
    /\ writes < MaxDiskWrites
    /\ writes' = writes + 1
    /\ \E f \in LocalStateChoices : f # localState /\ localState' = f
    /\ last' = Call("disk", "")
    /\ found' = EmptyMap
    /\ UNCHANGED <<bookmarkFiles, bakFiles, prefFiles, profiles, extensions,
                   bookmarks, pc, snap>>

WriteBookmarkFile ==
    /\ writes < MaxDiskWrites
    /\ writes' = writes + 1
    /\ \E id \in ProfileIds, f \in BookmarkFileChoices :
          /\ f # bookmarkFiles[id]
          /\ bookmarkFiles' = [bookmarkFiles EXCEPT ![id] = f]
          /\ bakFiles' = [bakFiles EXCEPT ![id] = @ \/ f.kind = "json"]
    /\ last' = Call("disk", "")
    /\ found' = EmptyMap
    /\ UNCHANGED <<localState, prefFiles, profiles, extensions, bookmarks, pc, snap>>

WritePrefFile ==
    /\ writes < MaxDiskWrites
    /\ writes' = writes + 1
    /\ \E id \in ProfileIds, f \in PrefFileChoices :
          /\ f # prefFiles[id]
          /\ prefFiles' = [prefFiles EXCEPT ![id] = f]
    /\ last' = Call("disk", "")
    /\ found' = EmptyMap
    /\ UNCHANGED <<localState, bookmarkFiles, bakFiles, profiles, extensions,
                   bookmarks, pc, snap>>

NextBookmarks ==
    \/ FetchAllProfiles
    \/ FetchBookmarks
    \/ DeleteBookmarks
    \/ WriteLocalState
    \/ WriteBookmarkFile

NextSearch ==
    \/ FetchAllProfiles
    \/ FetchBookmarks
    \/ Search
    \/ WriteLocalState
    \/ WriteBookmarkFile

NextExtensions ==
    \/ FetchAllProfiles
    \/ FetchExtensions
    \/ WriteLocalState
    \/ WritePrefFile

Next ==
    \/ FetchAllProfiles
    \/ FetchExtensions
    \/ FetchBookmarks
    \/ DeleteBookmarks
    \/ Search
    \/ WriteLocalState
    \/ WriteBookmarkFile
    \/ WritePrefFile

\* the whole program, under any caller and any rewriting of the files
Spec == Init /\ [][Next]_vars

\* the bookmark aggregator and mutator
SpecBookmarks == InitBookmarks /\ [][NextBookmarks]_vars

\* the bookmark aggregator and the search
SpecSearch == InitBookmarks /\ [][NextSearch]_vars

\* the extension resolver
SpecExtensions == InitExtensions /\ [][NextExtensions]_vars

(***************************************************************************)
(* A caller that runs the three discoveries twice over unchanged files,    *)
(* recording the in-memory state after the first round                     *)
(***************************************************************************)
IdemProfiles ==
    /\ pc \in {0, 3}
    /\ DoFetchAllProfiles
    /\ pc' = pc + 1
    /\ UNCHANGED snap

\* in the second round the caller may leave the profile set as it is
IdemExtensions ==
    /\ pc \in {1, 3, 4}
    /\ DoFetchExtensions
    /\ pc' = IF pc = 3 THEN 5 ELSE pc + 1
    /\ UNCHANGED snap

IdemBookmarks ==
    /\ pc \in {2, 5}
    /\ DoFetchBookmarks
    /\ pc' = pc + 1
    /\ snap' = IF pc = 2
               THEN [profiles |-> profiles', extensions |-> extensions',
                     bookmarks |-> bookmarks', urls |-> {}]
               ELSE snap

NextIdem ==
    \/ IdemProfiles
    \/ IdemExtensions
    \/ IdemBookmarks

SpecIdem == Init /\ [][NextIdem]_vars

(***************************************************************************)
(* A caller that discovers, deletes, records the in-memory state, and      *)
(* discovers again from the rewritten files                                *)
(***************************************************************************)
SyncProfiles ==
    /\ pc \in {0, 3}
    /\ DoFetchAllProfiles
    /\ pc' = pc + 1
    /\ UNCHANGED snap

SyncBookmarks ==
    /\ pc \in {1, 4}
    /\ DoFetchBookmarks
    /\ pc' = pc + 1
    /\ UNCHANGED snap

SyncDelete ==
    /\ pc = 2
    /\ \E urls_to_delete \in DeleteSets, profile_ids \in ProfileFilters :
          /\ DoDeleteBookmarks(urls_to_delete, profile_ids)
          /\ snap' = [profiles |-> profiles', extensions |-> extensions',
                      bookmarks |-> bookmarks', urls |-> urls_to_delete]
    /\ pc' = 3

NextSync ==
    \/ SyncProfiles
    \/ SyncBookmarks
    \/ SyncDelete

SpecSync == InitAnyBookmarks /\ [][NextSync]_vars

(***************************************************************************)
(* Bookmark referential integrity and bookmark file paths                  *)
(***************************************************************************)
BookmarkIntegrity ==
    \A i \in DOMAIN profiles :
        LET p == profiles[i] IN
        \A u \in DOMAIN p.bookmarks \cup DOMAIN bookmarks :
            /\ u \in DOMAIN p.bookmarks
                  <=> (u \in DOMAIN bookmarks /\ p.id \in DOMAIN bookmarks[u].profiles)
            /\ u \in DOMAIN p.bookmarks
                  => bookmarks[u].profiles[p.id] = p.bookmarks[u]

\* C1: bookmark referential integrity in the states the claim covers that
\* are easiest to meet, those a discover-bookmarks call has just produced:
\* whatever calls and rewritings of the files came before it, a URL is a key
\* of a known profile's URL->path mapping with path s exactly when the
\* global index holds it with that profile mapped to s.
C1_ReferentialIntegrity ==
    last.op = "fetch_bookmarks" => BookmarkIntegrity

\* C9: after a discover-bookmarks call every known profile's bookmark file
\* path is its Bookmarks path if the file existed at the call and the empty
\* string if it did not.
C9_BookmarkFileRecorded ==
    last.op = "fetch_bookmarks" =>
        \A i \in DOMAIN profiles :
            profiles[i].bookmark_file =
                IF bookmarkFiles[profiles[i].id].kind # "absent"
                THEN BookmarkPath(profiles[i].id)
                ELSE <<>>

(***************************************************************************)
(* Extension consistency and failure locality                              *)
(***************************************************************************)
\* C2: after a discover-extensions call that returned, an identifier is in a
\* known profile's extension-id set exactly when the global index holds it
\* with that profile in its profile set.
C2_ExtensionConsistency ==
    (last.op = "fetch_extensions" /\ last.err = "") =>
        \A i \in DOMAIN profiles : \A e \in ExtensionIds :
            e \in profiles[i].extensions
                <=> (e \in DOMAIN extensions /\ profiles[i].id \in extensions[e].profiles)

\* C7: a discover-extensions, discover-bookmarks or delete-bookmarks call
\* that meets a missing file or malformed data returns normally: no such
\* condition leaves the call as an exception.
C7_FailuresAreLocal ==
    last.op \in {"fetch_extensions", "fetch_bookmarks", "delete_bookmarks"} =>
        last.err \notin {"FileNotFoundError", "JSONDecodeError"}

(***************************************************************************)
(* Search                                                                  *)
(***************************************************************************)
\* C6: a search with no profile filter returns every Bookmark of the global
\* index whose URL contains the substring, whichever profiles hold it.
C6_UnfilteredSearchReturnsAll ==
    (last.op = "search_bookmarks" /\ ~last.pids.given) =>
        found = [u \in {v \in DOMAIN bookmarks : Contains(v, last.sub)} |-> bookmarks[u]]

(***************************************************************************)
(* Deletion: what a delete-bookmarks call does to the trees and the index  *)
(***************************************************************************)
\* the URLs of the url-type children of the folders of a tree, at any depth
RECURSIVE UrlsUnder(_)
UrlsUnder(node) ==
    IF node.type # "folder" THEN {}
    ELSE UNION { IF node.children[k].type = "url"
                 THEN {node.children[k].url}
                 ELSE UrlsUnder(node.children[k]) : k \in DOMAIN node.children }

UrlsInFolders(file) == UNION { UrlsUnder(file.roots[k]) : k \in DOMAIN file.roots }

\* a tree with the url-type children whose URL is in the set left out
RECURSIVE Without(_, _)
RECURSIVE ChildrenWithout(_, _)
Without(node, urls) ==
    IF node.type # "folder" THEN node
    ELSE [node EXCEPT !.children = ChildrenWithout(node.children, urls)]

ChildrenWithout(children, urls) ==
    IF Len(children) = 0 THEN <<>>
    ELSE LET child == Head(children)
             rest == ChildrenWithout(Tail(children), urls)
         IN  IF child.type = "url" /\ child.url \in urls
             THEN rest
             ELSE <<Without(child, urls)>> \o rest

RECURSIVE RootsWithout(_, _)
RootsWithout(roots, urls) ==
    IF Len(roots) = 0 THEN <<>>
    ELSE <<Without(Head(roots), urls)>> \o RootsWithout(Tail(roots), urls)

\* the selected profiles a call made now reaches and rewrites: known, with a
\* bookmark file recorded that parses, and not after a profile that is
\* unknown or whose recorded file is gone
SelectedIds(profile_ids) ==
    IF profile_ids.given THEN profile_ids.ids ELSE KeyList(profiles)

Stops(id) ==
    \/ id \notin ProfileKeys(profiles)
    \/ /\ Len(profiles[IndexOf(profiles, id)].bookmark_file) # 0
       /\ bookmarkFiles[id].kind = "absent"

Rewrites(id) ==
    /\ id \in ProfileKeys(profiles)
    /\ Len(profiles[IndexOf(profiles, id)].bookmark_file) # 0
    /\ bookmarkFiles[id].kind = "json"

ProcessedIds(profile_ids) ==
    LET ids == SelectedIds(profile_ids) IN
    { ids[k] : k \in { j \in DOMAIN ids :
                          /\ Rewrites(ids[j])
                          /\ \A h \in 1..j : ~Stops(ids[h]) } }

\* the profiles from whose tree this step removed the URL
RemovedFrom(u) ==
    { id \in ProfileIds : /\ u \in UrlsInFolders(bookmarkFiles[id])
                          /\ u \notin UrlsInFolders(bookmarkFiles'[id]) }

\* C3: a delete-bookmarks call removes a Bookmark from the global index
\* exactly when it removed the URL from the tree of every profile of its
\* profile-path mapping; otherwise the Bookmark stays, with the entries of
\* the profiles it was not removed from unchanged; and after the call no
\* Bookmark of the index has an empty profile-path mapping.
C3_LastReferenceCleanup ==
    [][last'.op = "delete_bookmarks" =>
        /\ \A u \in DOMAIN bookmarks :
              LET keep == DOMAIN bookmarks[u].profiles \ RemovedFrom(u) IN
              IF keep = {}
              THEN u \notin DOMAIN bookmarks'
              ELSE /\ u \in DOMAIN bookmarks'
                   /\ DOMAIN bookmarks'[u].profiles = keep
                   /\ \A id \in keep :
                         bookmarks'[u].profiles[id] = bookmarks[u].profiles[id]
        /\ \A u \in DOMAIN bookmarks' : DOMAIN bookmarks'[u].profiles # {}
      ]_vars

\* a call on Default alone has emptied its folder while Profile 1's file,
\* which holds U2 and not U1, is untouched: U1 is gone from the index and U2
\* stays with Profile 1's entry
C3_Witness ==
    /\ last.op = "delete_bookmarks"
    /\ last.err = ""
    /\ last.urls = {U1, U2}
    /\ last.pids = Filter(<<"Default">>)
    /\ bookmarkFiles["Default"].roots = << Folder(Bar, <<>>) >>
    /\ bookmarkFiles["Profile 1"] = RootUrlFile
    /\ U1 \notin DOMAIN bookmarks
    /\ U2 \in DOMAIN bookmarks
    /\ DOMAIN bookmarks[U2].profiles = {"Profile 1"}

\* C4: after a delete-bookmarks call the file of every profile it processed
\* holds, in every folder at every depth, the original children without the
\* url-type children whose URL is in the delete set, in their original
\* order, all folders kept; every other file is as it was.
C4_TreeAfterDelete ==
    [][last'.op = "delete_bookmarks" =>
        \A id \in ProfileIds :
            bookmarkFiles'[id] =
                IF id \in ProcessedIds(last'.pids)
                THEN [bookmarkFiles[id] EXCEPT
                        !.checksum = FALSE,
                        !.roots = RootsWithout(@, last'.urls)]
                ELSE bookmarkFiles[id]
      ]_vars

\* the five-child folder has lost its two adjacent matching children and the
\* one in its nested folder, and the folder whose children all matched is
\* empty but still there
C4_Witness ==
    /\ last.op = "delete_bookmarks"
    /\ last.urls = {U1, U2}
    /\ bookmarkFiles["Profile 1"].roots =
          << Folder(Bar, << UrlNode(NameC, U3), Folder(Work, <<>>),
                            UrlNode(NameC, U3) >>),
             Folder(Work, <<>>) >>

(***************************************************************************)
(* Idempotence of discovery                                                *)
(***************************************************************************)
\* C5: when the three discoveries are run and then run again over unchanged
\* files, the profile set, the extension index, the bookmark index and every
\* profile's extension-id set and URL->path mapping are after the second
\* round what they were after the first.
C5_DiscoveryIdempotent ==
    pc = 6 =>
        /\ profiles = snap.profiles
        /\ extensions = snap.extensions
        /\ bookmarks = snap.bookmarks

\* both rounds done, with an extension that the first profile could not
\* resolve and the second could, and bookmarks in both profiles
C5_Witness ==
    /\ pc = 6
    /\ Len(profiles) = 2
    /\ "e1" \in DOMAIN extensions
    /\ extensions["e1"].profiles = {profiles[2].id}
    /\ \E k \in DOMAIN prefFiles[profiles[1].id].settings :
          prefFiles[profiles[1].id].settings[k].id = "e1"
    /\ \A i \in DOMAIN profiles : DOMAIN profiles[i].bookmarks # {}

(***************************************************************************)
(* Extension dedup                                                         *)
(***************************************************************************)
\* the positions, in processing order, of the known profiles whose Secure
\* Preferences reference the identifier
Refs(e) ==
    { i \in DOMAIN profiles :
        LET file == prefFiles[profiles[i].id] IN
        /\ file.kind = "json"
        /\ file.hasSettings
        /\ \E k \in DOMAIN file.settings : file.settings[k].id = e }

SettingOf(i, e) ==
    LET file == prefFiles[profiles[i].id] IN
    file.settings[CHOOSE k \in DOMAIN file.settings : file.settings[k].id = e]

\* what resolving the identifier from profile i alone yields
ResolvedAlone(i, e) ==
    FetchOneExtension([profiles |-> profiles, extensions |-> EmptyMap, err |-> ""],
                      i, SettingOf(i, e), prefFiles[profiles[i].id].ext_dir)

ResolvesFrom(i, e) == e \in DOMAIN ResolvedAlone(i, e).extensions

Metadata(ext) == [name |-> ext.name, description |-> ext.description, icon |-> ext.icon]

MinOf(S) == CHOOSE x \in S : \A y \in S : x <= y

\* C8 as stated, where the two records differ and at least one of them
\* resolves: after a discover-extensions call that returned, an identifier
\* referenced by two or more known profiles has one Extension in the index,
\* with the metadata resolved from the first of those profiles in processing
\* order and with every referencing profile in its profile set.
C8_FirstReferencingProfile ==
    (last.op = "fetch_extensions" /\ last.err = "") =>
        \A e \in ExtensionIds :
            ( /\ Cardinality(Refs(e)) >= 2
              /\ \E i \in Refs(e) : ResolvesFrom(i, e)
              /\ \E i, j \in Refs(e) : SettingOf(i, e) # SettingOf(j, e) ) =>
                /\ e \in DOMAIN extensions
                /\ ResolvesFrom(MinOf(Refs(e)), e)
                /\ Metadata(extensions[e]) =
                      Metadata(ResolvedAlone(MinOf(Refs(e)), e).extensions[e])
                /\ extensions[e].profiles = {profiles[i].id : i \in Refs(e)}

\* C8 as amended: after a discover-extensions call, an identifier referenced
\* by two or more known profiles has an Extension in the index only if the
\* record of one of them resolves; the Extension's metadata are those
\* resolved from the first such profile in processing order, and its profile
\* set holds that profile and referencing profiles processed after it, and
\* none processed before it: all of the later ones when the call returned.
C8_FirstResolvingProfile ==
    last.op = "fetch_extensions" =>
        \A e \in ExtensionIds :
            Cardinality(Refs(e)) >= 2 =>
                LET resolving == {i \in Refs(e) : ResolvesFrom(i, e)} IN
                IF resolving = {}
                THEN e \notin DOMAIN extensions
                ELSE LET first == MinOf(resolving)
                         later == {profiles[i].id : i \in {j \in Refs(e) : j >= first}}
                     IN  /\ last.err = "" => e \in DOMAIN extensions
                         /\ e \in DOMAIN extensions =>
                              /\ Metadata(extensions[e]) =
                                    Metadata(ResolvedAlone(first, e).extensions[e])
                              /\ profiles[first].id \in extensions[e].profiles
                              /\ extensions[e].profiles \subseteq later
                              /\ last.err = "" => extensions[e].profiles = later

\* both profiles reference e1 with different manifests and both resolve it:
\* one Extension, named as the first profile's manifest names it
C8_Witness ==
    /\ last.op = "fetch_extensions"
    /\ last.err = ""
    /\ Refs("e1") = {1, 2}
    /\ SettingOf(1, "e1").manifest # SettingOf(2, "e1").manifest
    /\ ResolvesFrom(1, "e1")
    /\ ResolvesFrom(2, "e1")
    /\ Metadata(ResolvedAlone(1, "e1").extensions["e1"])
          # Metadata(ResolvedAlone(2, "e1").extensions["e1"])
    /\ extensions["e1"].profiles = {"Default", "Profile 1"}

(***************************************************************************)
(* Memory and disk across a deletion                                       *)
(***************************************************************************)
PathsOnly(bm) == [u \in DOMAIN bm |-> bm[u].profiles]

SameProfileMappings ==
    /\ Len(profiles) = Len(snap.profiles)
    /\ \A i \in DOMAIN profiles :
          /\ profiles[i].id = snap.profiles[i].id
          /\ profiles[i].bookmarks = snap.profiles[i].bookmarks

\* no file lists, as a root entry, a url node with a URL of the delete set
NoDeletedRootUrl ==
    \A id \in ProfileIds : \A k \in DOMAIN bookmarkFiles[id].roots :
        bookmarkFiles[id].roots[k].type = "url"
            => bookmarkFiles[id].roots[k].url \notin snap.urls

\* C10 as stated, for files whose deleted URLs all sit in folders: after
\* discovery and a delete call, the global bookmark index (names included)
\* and the per-profile URL->path mappings equal what discovery from the
\* rewritten files produces.
C10_MemoryMatchesDisk ==
    (pc = 5 /\ NoDeletedRootUrl) =>
        /\ bookmarks = snap.bookmarks
        /\ SameProfileMappings

\* C10 as amended: they agree in the URLs held, in every profile-path
\* mapping and in every per-profile URL->path mapping, when no deleted URL is
\* also a url-type root entry; the Bookmark names need not agree.
C10_MemoryMatchesDiskButNames ==
    (pc = 5 /\ NoDeletedRootUrl) =>
        /\ PathsOnly(bookmarks) = PathsOnly(snap.bookmarks)
        /\ SameProfileMappings

\* U1 was deleted from Default alone: the index kept the name Default gave
\* it, and discovery from the rewritten files names it as Profile 1 does
C10_Witness ==
    /\ pc = 5
    /\ NoDeletedRootUrl
    /\ snap.urls = {U1}
    /\ U1 \in DOMAIN bookmarks
    /\ DOMAIN bookmarks[U1].profiles = {"Profile 1"}
    /\ U1 \in DOMAIN snap.bookmarks
    /\ bookmarks[U1].name # snap.bookmarks[U1].name

====
